---- MODULE Spec2Model ----
(***************************************************************************)
(* Model of src/js/population-pyramid.js: the population pyramid page.     *)
(*                                                                         *)
(* The page is single threaded.  Every step of the model is one task of    *)
(* the browser's event loop run to completion: the continuation of a       *)
(* fetch, a DOM event handler, or a timer callback.  The JavaScript        *)
(* functions are operators from a state record to a state record, so that  *)
(* a handler is the composition of the functions it calls, in the order    *)
(* of the source.                                                          *)
(*                                                                         *)
(* Indices are 0-based as in the source; TLA+ sequences are 1-based, so    *)
(* allYearsData[i] of the source is allYearsData[i + 1] here.              *)
(***************************************************************************)
EXTENDS Integers, Sequences, FiniteSets, TLC

(***************************************************************************)
(* Bounds of the model.                                                    *)
(***************************************************************************)
MaxRequests == 3      \* calls of loadAndDisplayChart in one behaviour of Spec
MaxLoads == 2         \* calls of loadAndDisplayChart in one behaviour of SpecSeries
MaxYears == 3         \* years of the longest dataset file of SpecSeries
MaxLen == 3           \* rows of a raw dataset given to processRawData (SpecNormalize)
MaxBurst == 3         \* resize events of one burst (SpecResize)

(***************************************************************************)
(* JavaScript values.                                                      *)
(***************************************************************************)
Undefined == "<undefined>"   \* undefined, and null as URLSearchParams.get returns it
NaN == -1                    \* parseInt of a string that starts with no digit
NoChart == 0                 \* pyramidChart before the first new Chart
NoTimer == 0                 \* animationInterval before the first setInterval

Reverse(s) == [i \in 1..Len(s) |-> s[Len(s) + 1 - i]]

Negate(val) == 0 - val

Min(a, b) == IF a < b THEN a ELSE b

Max(a, b) == IF a > b THEN a ELSE b

\* Array.prototype.includes
Includes(arr, x) == \E i \in 1..Len(arr) : arr[i] = x

\* Array.prototype.findIndex on the year of an entry: 0-based, -1 when none
FindYearIndex(arr, y) ==
    IF \E i \in 1..Len(arr) : arr[i].year = y
    THEN (CHOOSE i \in 1..Len(arr) :
              arr[i].year = y /\ \A j \in 1..(i - 1) : arr[j].year # y) - 1
    ELSE -1

\* parseInt(s, 10) on the strings the model puts in the `year` parameter:
\* the leading digits are read, anything after them is dropped.
ParseInt(s) ==
    CASE s = "2025" -> 2025
      [] s = "2026" -> 2026
      [] s = "2027" -> 2027
      [] s = "1800" -> 1800
      [] s = "2025px" -> 2025
      [] OTHER -> NaN

\* A string is truthy unless it is empty; null is falsy.
Truthy(s) == s # Undefined /\ s # ""

(***************************************************************************)
(* processRawData (lines 45-60).  The result is the returned array and the *)
(* argument object as the call leaves it: reverse() reverses its receiver  *)
(* in place, and the receiver is the copy made by the spread.              *)
(***************************************************************************)
processRawData_InPlace(rawData) ==
    LET reversedData == Reverse(rawData.data)
    IN  [ret |-> << [year |-> rawData.year,
                     country |-> rawData.country,
                     ageGroups |-> [i \in 1..Len(reversedData) |-> reversedData[i].ageGroup],
                     male |-> [i \in 1..Len(reversedData) |-> reversedData[i].male],
                     female |-> [i \in 1..Len(reversedData) |-> reversedData[i].female]] >>,
         rawData |-> [rawData EXCEPT !.data = reversedData]]

processRawData(rawData) ==
    LET copy == rawData.data
        reversedData == Reverse(copy)
        yearData == [year |-> rawData.year,
                     country |-> rawData.country,
                     ageGroups |-> [i \in 1..Len(reversedData) |-> reversedData[i].ageGroup],
                     male |-> [i \in 1..Len(reversedData) |-> reversedData[i].male],
                     female |-> [i \in 1..Len(reversedData) |-> reversedData[i].female]]
    IN  [ret |-> << yearData >>, rawData |-> rawData]

(***************************************************************************)
(* The collaborators: the static files under data/ and the page's URL.     *)
(***************************************************************************)
Countries == {"Algeria", "Brazil", "Chad"}

DataYear == 2025

\* data/<country>_pyramid.json for one year, rows oldest age group first.
Population(c) == CASE c = "Algeria" -> 100 [] c = "Brazil" -> 200 [] OTHER -> 300

RawOf(c, y) ==
    LET p == Population(c) + (y - DataYear)
    IN  [year |-> y, country |-> c,
         data |-> << [ageGroup |-> "5-9", male |-> p + 10, female |-> p + 5],
                     [ageGroup |-> "0-4", male |-> p, female |-> p - 5] >>]

\* The series a dataset file of n years normalizes to: one processRawData
\* entry per year, years ascending.  The files of the repository hold one
\* year, n = 1, and the series is processRawData(rawData) itself.
SeriesOf(c, n) == [k \in 1..n |-> processRawData(RawOf(c, DataYear + k - 1)).ret[1]]

\* The catalogs data/country_list.json may hold: up to two distinct names.
Catalogs ==
    {<< >>} \cup {<< c >> : c \in Countries}
            \cup {<< c, d >> : << c, d >> \in {p \in Countries \X Countries : p[1] # p[2]}}

(***************************************************************************)
(* State.                                                                  *)
(***************************************************************************)
VARIABLES
    pyramidChart,        \* line 3: id of the chart instance, NoChart before the first
    allYearsData,        \* line 4
    currentYearIndex,    \* line 5
    animationInterval,   \* line 6: the handle setInterval returned, NoTimer before
    isPlaying,           \* line 7
    countryList,         \* line 8
    charts,              \* Chart.js: live (constructed, not destroyed) instances, id -> data
    intervals,           \* browser: ids of the pending interval timers
    messageBox,          \* #messageBox: text, type class, hidden class
    loadingHidden,       \* #loadingIndicator has class hidden
    currentYearDisplay,  \* #currentYearDisplay textContent
    dataSourceInfo,      \* #dataSourceInfo textContent
    yearSlider,          \* #yearSlider: value, max
    playPauseButton,     \* #playPauseButton: text, colour class, hidden-controls
    sliderHidden,        \* #sliderComponents has class hidden-controls
    controlsHidden,      \* #controlsContainer has class hidden-controls
    clickListeners,      \* click listeners added to #playPauseButton
    inputListeners,      \* input listeners added to #yearSlider
    countrySelector,     \* #countrySelector: option values, value
    url,                 \* window.location.search: country, year
    inflight,            \* dataset fetches awaiting their response, in issue order
    catalogFetch,        \* "pending", "ok" or "failed"
    fileYears,           \* per country, the years its dataset file holds
    requests,            \* calls of loadAndDisplayChart so far
    lastRequested,       \* argument of the latest call of loadAndDisplayChart
    lastCompleted,       \* country of the latest dataset fetch that got its response
    fetchFailed,         \* some dataset fetch has failed
    lastDestroyed,       \* what the instance destroyed last held, NoData before
    tickStart,           \* currentYearIndex before the first of the latest run of ticks
    tickRun,             \* ticks since, with no other task in between; 0 after another task
    log,                 \* what the latest task did, in order
    resizeTimeout,       \* line 317: the handle setTimeout returned, NoTimer before
    timeouts,            \* browser: pending resize timeouts, id -> ms until it is due
    sinceResize,         \* ms since the latest resize event, counted up to DebounceDelay
    burst,               \* the latest burst: its events, the callbacks run, the resize calls
    rawInput,            \* SpecNormalize: the object given to processRawData
    normalized           \* SpecNormalize: what processRawData returned

vars == << pyramidChart, allYearsData, currentYearIndex, animationInterval, isPlaying,
           countryList, charts, intervals, messageBox, loadingHidden,
           currentYearDisplay, dataSourceInfo, yearSlider, playPauseButton,
           sliderHidden, controlsHidden, clickListeners, inputListeners,
           countrySelector, url, inflight, catalogFetch, fileYears, requests,
           lastRequested, lastCompleted, fetchFailed, lastDestroyed, tickStart,
           tickRun, log, resizeTimeout, timeouts, sinceResize, burst,
           rawInput, normalized >>

\* The page state as one record, the argument and result of every function.
State ==
    [pyramidChart |-> pyramidChart, allYearsData |-> allYearsData,
     currentYearIndex |-> currentYearIndex, animationInterval |-> animationInterval,
     isPlaying |-> isPlaying, countryList |-> countryList, charts |-> charts,
     intervals |-> intervals, messageBox |-> messageBox, loadingHidden |-> loadingHidden,
     currentYearDisplay |-> currentYearDisplay, dataSourceInfo |-> dataSourceInfo,
     yearSlider |-> yearSlider, playPauseButton |-> playPauseButton,
     sliderHidden |-> sliderHidden, controlsHidden |-> controlsHidden,
     clickListeners |-> clickListeners, inputListeners |-> inputListeners,
     countrySelector |-> countrySelector, url |-> url, inflight |-> inflight,
     catalogFetch |-> catalogFetch, requests |-> requests,
     lastRequested |-> lastRequested, lastCompleted |-> lastCompleted,
     fetchFailed |-> fetchFailed, lastDestroyed |-> lastDestroyed,
     tickStart |-> tickStart, tickRun |-> tickRun,
     log |-> log]

\* The task that produced st ends: its state becomes the page's state.
Commit(st) ==
    /\ pyramidChart' = st.pyramidChart
    /\ allYearsData' = st.allYearsData
    /\ currentYearIndex' = st.currentYearIndex
    /\ animationInterval' = st.animationInterval
    /\ isPlaying' = st.isPlaying
    /\ countryList' = st.countryList
    /\ charts' = st.charts
    /\ intervals' = st.intervals
    /\ messageBox' = st.messageBox
    /\ loadingHidden' = st.loadingHidden
    /\ currentYearDisplay' = st.currentYearDisplay
    /\ dataSourceInfo' = st.dataSourceInfo
    /\ yearSlider' = st.yearSlider
    /\ playPauseButton' = st.playPauseButton
    /\ sliderHidden' = st.sliderHidden
    /\ controlsHidden' = st.controlsHidden
    /\ clickListeners' = st.clickListeners
    /\ inputListeners' = st.inputListeners
    /\ countrySelector' = st.countrySelector
    /\ url' = st.url
    /\ inflight' = st.inflight
    /\ catalogFetch' = st.catalogFetch
    /\ requests' = st.requests
    /\ lastRequested' = st.lastRequested
    /\ lastCompleted' = st.lastCompleted
    /\ fetchFailed' = st.fetchFailed
    /\ lastDestroyed' = st.lastDestroyed
    /\ tickStart' = st.tickStart
    /\ tickRun' = st.tickRun
    /\ log' = st.log
    /\ UNCHANGED << fileYears, rawInput, normalized,
                    resizeTimeout, timeouts, sinceResize, burst >>

\* A task starts: the log of the previous task is dropped, a run of ticks ends.
Task(st, name) == [st EXCEPT !.log = << name >>, !.tickRun = 0]

Did(st, what) == [st EXCEPT !.log = Append(@, what)]

(***************************************************************************)
(* Utility functions (lines 23-43).                                        *)
(***************************************************************************)
\* Lines 23-35.  The timeout of line 34 is the task HideMessage below.
showMessage(st, message, type) ==
    Did([st EXCEPT !.messageBox = [text |-> message, type |-> type, hidden |-> FALSE]],
        "showMessage")

\* Lines 37-43.
showLoading(st, show) == [st EXCEPT !.loadingHidden = ~show]

(***************************************************************************)
(* Chart functions (lines 63-174).                                         *)
(***************************************************************************)
YearText(year) == "Year: " \o ToString(year)

SourceText(country) == "Data for \"" \o country \o "\""

\* An <input type=range> clamps the value it is given to [min, max], min = 0.
SetSliderValue(slider, v) == [slider EXCEPT !.value = Max(0, Min(v, slider.max))]

\* What a chart instance holds of an entry (lines 84-105, 170-172).
ChartData(entry) ==
    [labels |-> entry.ageGroups,
     male |-> [i \in 1..Len(entry.male) |-> Negate(entry.male[i])],
     female |-> entry.female]

\* The id of a new object: the least one no live object has.  A new chart gets
\* an id the instance destroyed for it did not have: it is another object.
FreshId(used) == CHOOSE i \in 1..(Cardinality(used) + 1) : i \notin used

Without(f, k) == [i \in (DOMAIN f) \ {k} |-> f[i]]

With(f, k, v) == [i \in (DOMAIN f) \cup {k} |-> IF i = k THEN v ELSE f[i]]

NoData == [labels |-> << >>, male |-> << >>, female |-> << >>]

\* Lines 78-80 with the call of destroy() left out.
destroyChart_Mut(st) == st

\* Lines 78-80: pyramidChart.destroy() when there is an instance.
destroyChart(st) ==
    IF st.pyramidChart # NoChart
    THEN Did([st EXCEPT !.charts = Without(@, st.pyramidChart),
                        !.lastDestroyed = st.charts[st.pyramidChart]],
             "destroy")
    ELSE st

\* Lines 63-160.
initializeChart(st, dataIndex) ==
    IF Len(st.allYearsData) = 0 \/ dataIndex < 0 \/ dataIndex >= Len(st.allYearsData)
    THEN [showMessage(st, "No data available to display chart.", "error")
             EXCEPT !.dataSourceInfo = "Error: Could not load data.",
                    !.currentYearDisplay = "Year: ---"]
    ELSE LET currentData == st.allYearsData[dataIndex + 1]
             s1 == [st EXCEPT !.currentYearDisplay = YearText(currentData.year),
                              !.dataSourceInfo = SourceText(currentData.country),
                              !.yearSlider = SetSliderValue(@, dataIndex)]
             s2 == destroyChart(s1)
             id == FreshId(DOMAIN s1.charts)
         IN  Did([s2 EXCEPT !.charts = With(@, id, ChartData(currentData)),
                            !.pyramidChart = id],
                 "new Chart")

\* Lines 162-174 with the chart built anew (initializeChart) in place of lines 170-173.
updateChartForAnimation_Mut(st, dataIndex) ==
    IF dataIndex < 0 \/ dataIndex >= Len(st.allYearsData)
    THEN st
    ELSE Did(initializeChart([st EXCEPT !.currentYearIndex = dataIndex], dataIndex), "update")

\* Lines 162-174.  With no chart instance line 170 throws, after lines 164-168.
updateChartForAnimation(st, dataIndex) ==
    IF dataIndex < 0 \/ dataIndex >= Len(st.allYearsData)
    THEN st
    ELSE LET data == st.allYearsData[dataIndex + 1]
             s1 == [st EXCEPT !.currentYearIndex = dataIndex,
                              !.currentYearDisplay = YearText(data.year),
                              !.yearSlider = SetSliderValue(@, dataIndex)]
         IN  IF s1.pyramidChart \in DOMAIN s1.charts
             THEN Did([s1 EXCEPT !.charts[s1.pyramidChart] = ChartData(data)], "update")
             ELSE Did(s1, "TypeError")

(***************************************************************************)
(* Animation controls (lines 177-230).                                     *)
(***************************************************************************)
\* classList.replace(old, new) on the colour class of the button.
ReplaceClass(button, old, new) ==
    IF button.colour = old THEN [button EXCEPT !.colour = new] ELSE button

\* Lines 177-189 with the check of the length (line 178) left out.
startAnimation_Mut(st) ==
    IF st.isPlaying
    THEN st
    ELSE LET id == FreshId(st.intervals \cup {st.animationInterval})
         IN  showMessage(Did([st EXCEPT !.isPlaying = TRUE,
                                        !.playPauseButton =
                                            ReplaceClass([@ EXCEPT !.text = "Pause"],
                                                         "blue", "red"),
                                        !.intervals = @ \cup {id},
                                        !.animationInterval = id],
                             "setInterval"),
                         "Animation started!", "info")

\* Lines 177-189.  The callback of the interval is the task Tick below.
startAnimation(st) ==
    IF st.isPlaying \/ Len(st.allYearsData) <= 1
    THEN st
    ELSE LET id == FreshId(st.intervals \cup {st.animationInterval})
             s1 == [st EXCEPT !.isPlaying = TRUE,
                              !.playPauseButton =
                                  ReplaceClass([@ EXCEPT !.text = "Pause"], "blue", "red"),
                              !.intervals = @ \cup {id},
                              !.animationInterval = id]
         IN  showMessage(Did(s1, "setInterval"), "Animation started!", "info")

\* Lines 191-199 with the clearInterval of line 197 left out.
stopAnimation_Mut(st) ==
    IF ~st.isPlaying
    THEN st
    ELSE showMessage([st EXCEPT !.isPlaying = FALSE,
                                !.playPauseButton =
                                    ReplaceClass([@ EXCEPT !.text = "Play"], "red", "blue")],
                     "Animation paused.", "info")

\* Lines 191-199.
stopAnimation(st) ==
    IF ~st.isPlaying
    THEN st
    ELSE LET s1 == [st EXCEPT !.isPlaying = FALSE,
                              !.playPauseButton =
                                  ReplaceClass([@ EXCEPT !.text = "Play"], "red", "blue"),
                              !.intervals = @ \ {st.animationInterval}]
         IN  showMessage(Did(s1, "clearInterval"), "Animation paused.", "info")

\* Lines 201-230.  The two listeners are the tasks PlayPauseClick and SliderInput.
setupControls(st) ==
    IF Len(st.allYearsData) <= 1
    THEN LET s1 == [st EXCEPT !.playPauseButton.hidden = TRUE, !.sliderHidden = TRUE]
         IN  IF Len(st.allYearsData) = 1
             THEN [s1 EXCEPT !.currentYearDisplay = YearText(st.allYearsData[1].year),
                             !.dataSourceInfo = SourceText(st.allYearsData[1].country)]
             ELSE s1
    ELSE [st EXCEPT !.playPauseButton.hidden = FALSE,
                    !.sliderHidden = FALSE,
                    !.yearSlider = SetSliderValue([@ EXCEPT !.max = Len(st.allYearsData) - 1],
                                                  st.currentYearIndex),
                    !.clickListeners = @ + 1,
                    !.inputListeners = @ + 1]

\* Lines 217-220: one click listener.
clickListener(st) == IF st.isPlaying THEN stopAnimation(st) ELSE startAnimation(st)

\* Lines 222-228 with the stopAnimation of line 223 left out.
inputListener_Mut(st) ==
    IF st.yearSlider.value # st.currentYearIndex
    THEN updateChartForAnimation(st, st.yearSlider.value)
    ELSE st

\* Lines 222-228: one input listener; event.target.value is the slider's value.
inputListener(st) ==
    LET s1 == stopAnimation(st)
        newIndex == s1.yearSlider.value
    IN  IF newIndex # s1.currentYearIndex
        THEN updateChartForAnimation(s1, newIndex)
        ELSE s1

\* An event runs every listener added for it, in the order they were added.
RECURSIVE DispatchClick(_, _)
DispatchClick(n, st) ==
    IF n = 0 THEN st ELSE DispatchClick(n - 1, clickListener(st))

RECURSIVE DispatchInput(_, _)
DispatchInput(n, st) ==
    IF n = 0 THEN st ELSE DispatchInput(n - 1, inputListener(st))

(***************************************************************************)
(* Data loading (lines 233-302).  An async function is split at its        *)
(* awaits: the call up to the fetch, then the continuation that runs when  *)
(* the response is there (_then) or the fetch has failed (_catch).         *)
(***************************************************************************)
NoRequest == "<none>"

\* The default value of the parameter countryName (line 233).
Requested(countryName) == IF countryName = Undefined THEN "Algeria" ELSE countryName

RemoveAt(s, i) == [j \in 1..(Len(s) - 1) |-> IF j < i THEN s[j] ELSE s[j + 1]]

\* Lines 233-237: up to the await of fetch.
loadAndDisplayChart(st, countryName) ==
    LET s1 == showLoading(st, TRUE)
    IN  Did([s1 EXCEPT !.inflight = Append(@, Requested(countryName)),
                       !.requests = @ + 1,
                       !.lastRequested = countryName],
            "fetch")

\* Lines 244-254 with the message of line 252 left out.
applyYearParam_Mut(st) ==
    LET yearParam == st.url.year
    IN  IF Truthy(yearParam) /\ Len(st.allYearsData) > 0
        THEN LET foundIndex == FindYearIndex(st.allYearsData, ParseInt(yearParam))
             IN  IF foundIndex # -1 THEN [st EXCEPT !.currentYearIndex = foundIndex] ELSE st
        ELSE st

\* Lines 244-254: the `year` parameter of the URL.
applyYearParam(st) ==
    LET yearParam == st.url.year
    IN  IF Truthy(yearParam) /\ Len(st.allYearsData) > 0
        THEN LET requestedYear == ParseInt(yearParam)
                 foundIndex == FindYearIndex(st.allYearsData, requestedYear)
             IN  IF foundIndex # -1
                 THEN [st EXCEPT !.currentYearIndex = foundIndex]
                 ELSE showMessage(st, "Year " \o yearParam
                          \o " not found in dataset. Defaulting to first available year.",
                          "error")
        ELSE st

\* Lines 238-258: the response of the i-th pending fetch is there and is ok.
loadAndDisplayChart_then(st, i) ==
    LET c == st.inflight[i]
        s1 == [st EXCEPT !.inflight = RemoveAt(@, i),
                         !.lastCompleted = c,
                         !.allYearsData = SeriesOf(c, fileYears[c])]
        s2 == applyYearParam(s1)
        s3 == initializeChart(s2, s2.currentYearIndex)
        s4 == setupControls(s3)
    IN  showLoading(s4, FALSE)

FilePath(countryName) == "data/" \o countryName \o "_pyramid.json"

\* error.message of line 262: the Error of line 239, or what fetch rejected with.
ErrorMessage(kind, c) ==
    IF kind = "http"
    THEN "HTTP error! status: 404 - Could not fetch " \o FilePath(c)
    ELSE "Failed to fetch"

\* Lines 260-267 with the message of line 262 left out.
loadAndDisplayChart_catch_Mut(st, i, kind) ==
    showLoading([st EXCEPT !.inflight = RemoveAt(@, i),
                           !.lastCompleted = st.inflight[i],
                           !.fetchFailed = TRUE,
                           !.dataSourceInfo = "Error: Could not load data.",
                           !.currentYearDisplay = "Year: ---",
                           !.controlsHidden = TRUE],
                FALSE)

\* Lines 260-267: the i-th pending fetch failed, or its response is not ok.
loadAndDisplayChart_catch(st, i, kind) ==
    LET c == st.inflight[i]
        s1 == [st EXCEPT !.inflight = RemoveAt(@, i),
                         !.lastCompleted = c,
                         !.fetchFailed = TRUE]
        s2 == showMessage(s1, "Error: " \o ErrorMessage(kind, c), "error")
    IN  showLoading([s2 EXCEPT !.dataSourceInfo = "Error: Could not load data.",
                               !.currentYearDisplay = "Year: ---",
                               !.controlsHidden = TRUE],
                    FALSE)

\* select.value = v selects the option of that value; with none, nothing is selected.
SetSelectValue(select, v) ==
    [select EXCEPT !.value = IF Includes(select.options, v) THEN v ELSE ""]

\* countryList[0]
First(arr) == IF Len(arr) = 0 THEN Undefined ELSE arr[1]

\* Line 293 with the fallback to the first entry left out.
defaultCountry_Mut(list) == "Algeria"

\* Line 293.
defaultCountry(list) == IF Includes(list, "Algeria") THEN "Algeria" ELSE First(list)

\* Lines 277-296: the catalog is there.
loadCountryList_then(st, catalog) ==
    LET s1 == [st EXCEPT !.countryList = catalog,
                         !.catalogFetch = "ok",
                         !.countrySelector = [options |-> << "" >> \o catalog, value |-> ""]]
        countryParam == s1.url.country
    IN  IF Truthy(countryParam) /\ Includes(s1.countryList, countryParam)
        THEN loadAndDisplayChart(
                 [s1 EXCEPT !.countrySelector = SetSelectValue(@, countryParam)],
                 countryParam)
        ELSE loadAndDisplayChart(
                 [s1 EXCEPT !.countrySelector =
                                SetSelectValue(@, defaultCountry(s1.countryList))],
                 defaultCountry(s1.countryList))

\* Lines 297-301 with the message of line 299 left out.
loadCountryList_catch_Mut(st) ==
    loadAndDisplayChart([st EXCEPT !.catalogFetch = "failed"], "Algeria")

\* Lines 297-301: the catalog fetch failed, or its response is not ok.
loadCountryList_catch(st) ==
    loadAndDisplayChart(
        showMessage([st EXCEPT !.catalogFetch = "failed"],
                    "Could not load country list. Using default country.", "error"),
        "Algeria")

\* Lines 306-315: the change listener of the country selector.
countryChangeListener(st) ==
    LET selectedCountry == st.countrySelector.value
    IN  IF Truthy(selectedCountry)
        THEN loadAndDisplayChart([st EXCEPT !.url.country = selectedCountry],
                                 selectedCountry)
        ELSE st

(***************************************************************************)
(* The resize listener (lines 317-325).  Its state is the variable         *)
(* resizeTimeout of setupEventListeners and the browser's pending          *)
(* timeouts; the result is the pair of them after the listener has run.    *)
(***************************************************************************)
DebounceDelay == 250

\* Lines 318-325 with the clearTimeout of line 319 left out.
resizeListener_Mut(handle, pending) ==
    LET id == FreshId(DOMAIN pending \cup {handle})
    IN  [resizeTimeout |-> id, timeouts |-> With(pending, id, DebounceDelay)]

\* Lines 318-325: clearTimeout(resizeTimeout), then setTimeout(..., 250).
resizeListener(handle, pending) ==
    LET cleared == IF handle \in DOMAIN pending THEN Without(pending, handle) ELSE pending
        id == FreshId(DOMAIN cleared \cup {handle})
    IN  [resizeTimeout |-> id, timeouts |-> With(cleared, id, DebounceDelay)]

\* Lines 321-323: the callback calls pyramidChart.resize() when pyramidChart is truthy.
resizeCallback(chart) == IF chart # NoChart THEN << "resize" >> ELSE << >>

(***************************************************************************)
(* The page once window.onload has run (lines 329-332): the listeners of   *)
(* setupEventListeners are added and the catalog fetch of loadCountryList  *)
(* (line 273) is pending.  The other values are those of index.html and of *)
(* lines 3-8.                                                              *)
(***************************************************************************)
NoInput == [year |-> 0, country |-> "", data |-> << >>]

EmptyMap == [i \in {} |-> 0]

PageLoaded ==
    /\ pyramidChart = NoChart
    /\ allYearsData = << >>
    /\ currentYearIndex = 0
    /\ animationInterval = NoTimer
    /\ isPlaying = FALSE
    /\ countryList = << >>
    /\ charts = EmptyMap
    /\ intervals = {}
    /\ messageBox = [text |-> "", type |-> "", hidden |-> TRUE]
    /\ loadingHidden = TRUE
    /\ currentYearDisplay = "Year: Loading..."
    /\ dataSourceInfo = "Data: Loading..."
    /\ yearSlider = [value |-> 0, max |-> 0]
    /\ playPauseButton = [text |-> "Play", colour |-> "blue", hidden |-> FALSE]
    /\ sliderHidden = FALSE
    /\ controlsHidden = FALSE
    /\ clickListeners = 0
    /\ inputListeners = 0
    /\ countrySelector = [options |-> << "" >>, value |-> ""]
    /\ inflight = << >>
    /\ catalogFetch = "pending"
    /\ requests = 0
    /\ lastRequested = NoRequest
    /\ lastCompleted = NoRequest
    /\ fetchFailed = FALSE
    /\ lastDestroyed = NoData
    /\ tickStart = 0
    /\ tickRun = 0
    /\ log = << "onload" >>
    /\ resizeTimeout = NoTimer
    /\ timeouts = EmptyMap
    /\ sinceResize = 0
    /\ burst = [events |-> 0, fired |-> 0, calls |-> 0]

\* The query string the page is opened with.
UrlCountries == Countries \cup {Undefined, "Atlantis"}

UrlYears == {Undefined, "2025", "1800", "2025px"}

Init ==
    /\ PageLoaded
    /\ url \in [country : UrlCountries, year : UrlYears]
    /\ fileYears = [c \in Countries |-> 1]
    /\ rawInput = NoInput
    /\ normalized = << >>

(***************************************************************************)
(* The tasks.                                                              *)
(***************************************************************************)
\* The response of data/country_list.json is there and is ok.
CatalogOk(catalog) ==
    /\ catalogFetch = "pending"
    /\ Commit(loadCountryList_then(Task(State, "loadCountryList.then"), catalog))

\* The fetch of data/country_list.json failed, or its response is not ok.
CatalogFail ==
    /\ catalogFetch = "pending"
    /\ Commit(loadCountryList_catch(Task(State, "loadCountryList.catch")))

\* The user picks another option of the country selector: a change event.
CountryChange(c, maxRequests) ==
    /\ Includes(countrySelector.options, c)
    /\ c # countrySelector.value
    /\ Truthy(c) => requests < maxRequests
    /\ Commit(countryChangeListener(
           [Task(State, "countrySelector.change") EXCEPT !.countrySelector.value = c]))

\* The i-th pending dataset fetch gets an ok response.
FetchOk(i) ==
    /\ i \in 1..Len(inflight)
    /\ Commit(loadAndDisplayChart_then(Task(State, "loadAndDisplayChart.then"), i))

\* The i-th pending dataset fetch fails, or its response is not ok.
FetchFail(i, kind) ==
    /\ i \in 1..Len(inflight)
    /\ Commit(loadAndDisplayChart_catch(Task(State, "loadAndDisplayChart.catch"), i, kind))

\* The timeout of line 34.  Every showMessage sets one, and each of them only
\* adds the class hidden: the box is shown exactly while the timeout of the
\* latest showMessage is pending, so one fires exactly when the box is shown.
HideMessage ==
    /\ ~messageBox.hidden
    /\ Commit([Task(State, "messageBox.timeout") EXCEPT !.messageBox.hidden = TRUE])

\* A click on the play/pause button (lines 217-220, once per listener added).
PlayPauseClick ==
    /\ clickListeners > 0
    /\ Commit(DispatchClick(clickListeners, Task(State, "playPauseButton.click")))

\* The user moves the slider to v: an input event (lines 222-228, once per listener).
SliderInput(v) ==
    /\ v \in 0..yearSlider.max
    /\ v # yearSlider.value
    /\ Commit(DispatchInput(inputListeners,
                         [Task(State, "yearSlider.input") EXCEPT !.yearSlider.value = v]))

\* Lines 184-187 with the modulo of line 185 left out.
intervalCallback_Mut(st) ==
    LET s1 == [st EXCEPT !.currentYearIndex = @ + 1]
    IN  updateChartForAnimation(s1, s1.currentYearIndex)

\* Lines 184-187: the callback of the pending interval timer.
intervalCallback(st) ==
    LET s1 == [st EXCEPT !.currentYearIndex = (@ + 1) % Len(st.allYearsData)]
    IN  updateChartForAnimation(s1, s1.currentYearIndex)

Tick(t) ==
    /\ t \in intervals
    /\ LET st == Task(State, "interval")
           s1 == intervalCallback(st)
           n == Len(allYearsData)
       IN  Commit(IF tickRun = 0 \/ tickRun >= n
                  THEN [s1 EXCEPT !.tickStart = currentYearIndex, !.tickRun = 1]
                  ELSE [s1 EXCEPT !.tickRun = tickRun + 1])

\* The page's variables a resize task leaves alone: all but log and tickRun.
pageVars == << pyramidChart, allYearsData, currentYearIndex, animationInterval, isPlaying,
               countryList, charts, intervals, messageBox, loadingHidden,
               currentYearDisplay, dataSourceInfo, yearSlider, playPauseButton,
               sliderHidden, controlsHidden, clickListeners, inputListeners,
               countrySelector, url, inflight, catalogFetch, fileYears, requests,
               lastRequested, lastCompleted, fetchFailed, lastDestroyed, tickStart,
               rawInput, normalized >>

\* A timer task is queued when its delay has elapsed: while one is due, no time
\* passes and no resize event that arrives later is handled before it.
Due == {id \in DOMAIN timeouts : timeouts[id] = 0}

\* The window is resized: a resize event (lines 318-325).  It continues the
\* burst when it follows the previous event by less than DebounceDelay.
Resize ==
    /\ Due = {}
    /\ LET continues == burst.events > 0 /\ sinceResize < DebounceDelay
           r == resizeListener(resizeTimeout, timeouts)
       IN  /\ continues => burst.events < MaxBurst
           /\ resizeTimeout' = r.resizeTimeout
           /\ timeouts' = r.timeouts
           /\ burst' = IF continues
                       THEN [burst EXCEPT !.events = @ + 1]
                       ELSE [events |-> 1, fired |-> 0, calls |-> 0]
    /\ sinceResize' = 0
    /\ log' = << "window.resize" >>
    /\ tickRun' = 0
    /\ UNCHANGED pageVars

\* d ms pass, up to the moment the next pending timeout is due.
Elapse(d) ==
    /\ \A id \in DOMAIN timeouts : d <= timeouts[id]
    /\ sinceResize < DebounceDelay \/ timeouts # EmptyMap
    /\ timeouts' = [id \in DOMAIN timeouts |-> timeouts[id] - d]
    /\ sinceResize' = Min(sinceResize + d, DebounceDelay)
    /\ UNCHANGED << pageVars, log, tickRun, resizeTimeout, burst >>

\* The callback of the timeout id, which is due (lines 320-324).
ResizeTimeout(id) ==
    /\ id \in Due
    /\ timeouts' = Without(timeouts, id)
    /\ log' = << "resizeTimeout" >> \o resizeCallback(pyramidChart)
    /\ burst' = [burst EXCEPT !.fired = @ + 1,
                              !.calls = @ + Len(resizeCallback(pyramidChart))]
    /\ tickRun' = 0
    /\ UNCHANGED << pageVars, resizeTimeout, sinceResize >>

(***************************************************************************)
(* Spec: the page as the repository ships it.  Every dataset file holds    *)
(* one year, so allYearsData never has more than one entry: setupControls  *)
(* adds no listener and startAnimation is never called, and the tasks      *)
(* PlayPauseClick, SliderInput and Tick never run (NoAnimationShipped      *)
(* states it; SpecAll checks it).                                          *)
(***************************************************************************)
Next ==
    \/ \E catalog \in Catalogs : CatalogOk(catalog)
    \/ CatalogFail
    \/ \E c \in Countries \cup {""} : CountryChange(c, MaxRequests)
    \/ \E i \in 1..MaxRequests : FetchOk(i)
    \/ \E i \in 1..MaxRequests, kind \in {"http", "network"} : FetchFail(i, kind)
    \/ HideMessage

Spec == Init /\ [][Next]_vars

AnimationTasks ==
    \/ PlayPauseClick
    \/ \E v \in 0..MaxYears : SliderInput(v)
    \/ \E t \in 1..2 : Tick(t)

SpecAll == Init /\ [][Next \/ AnimationTasks]_vars

NoAnimationShipped ==
    /\ Len(allYearsData) <= 1
    /\ clickListeners = 0 /\ inputListeners = 0
    /\ yearSlider.max = 0
    /\ intervals = {} /\ ~isPlaying
    /\ currentYearIndex = 0

(***************************************************************************)
(* SpecSeries: the animation controller over series of more than one year. *)
(* It is the same page with one difference: a dataset file may hold up to  *)
(* MaxYears years (SeriesOf), as the data model of the specification       *)
(* allows and the comments of lines 4, 46-47 and 59 anticipate.  With      *)
(* fileYears = 1 everywhere it is Spec.                                    *)
(***************************************************************************)
SeriesCountries == {"Algeria", "Brazil", "Chad"}

InitSeries ==
    /\ PageLoaded
    /\ url \in [country : {Undefined}, year : {Undefined, "2026"}]
    /\ fileYears = [c \in Countries |-> CASE c = "Algeria" -> MaxYears
                                          [] c = "Brazil" -> MaxYears - 1
                                          [] OTHER -> 1]
    /\ rawInput = NoInput
    /\ normalized = << >>

NextSeries ==
    \/ CatalogOk(<< "Algeria", "Brazil", "Chad" >>)
    \/ CatalogFail
    \/ \E c \in SeriesCountries : CountryChange(c, MaxLoads)
    \/ \E i \in 1..MaxLoads : FetchOk(i)
    \/ \E i \in 1..MaxLoads : FetchFail(i, "network")
    \/ HideMessage
    \/ PlayPauseClick
    \/ \E v \in 0..MaxYears : SliderInput(v)
    \/ \E t \in 1..2 : Tick(t)

SpecSeries == InitSeries /\ [][NextSeries]_vars

(***************************************************************************)
(* SpecNormalize: processRawData on every raw dataset of up to MaxLen      *)
(* rows.  The page itself stays as it was loaded.                          *)
(***************************************************************************)
Rows == [ageGroup : {"0-4", "5-9"}, male : {100, 110}, female : {95, 105}]

RECURSIVE SeqsUpTo(_, _)
SeqsUpTo(S, n) ==
    IF n = 0 THEN {<< >>}
    ELSE LET shorter == SeqsUpTo(S, n - 1)
         IN  shorter \cup {Append(q, x) : q \in {r \in shorter : Len(r) = n - 1}, x \in S}

RawInputs == [year : {DataYear}, country : {"Algeria"}, data : SeqsUpTo(Rows, MaxLen)]

InitNormalize ==
    /\ PageLoaded
    /\ url = [country |-> Undefined, year |-> Undefined]
    /\ fileYears = [c \in Countries |-> 1]
    /\ rawInput \in RawInputs
    /\ normalized = << >>

\* One call of processRawData(rawInput).
Normalize ==
    /\ normalized = << >>
    /\ normalized' = processRawData(rawInput).ret
    /\ rawInput' = processRawData(rawInput).rawData
    /\ UNCHANGED << pyramidChart, allYearsData, currentYearIndex, animationInterval,
                    isPlaying, countryList, charts, intervals, messageBox, loadingHidden,
                    currentYearDisplay, dataSourceInfo, yearSlider, playPauseButton,
                    sliderHidden, controlsHidden, clickListeners, inputListeners,
                    countrySelector, url, inflight, catalogFetch, fileYears, requests,
                    lastRequested, lastCompleted, fetchFailed, lastDestroyed, tickStart,
                    tickRun, log, resizeTimeout, timeouts, sinceResize, burst >>

NextNormalize == Normalize

SpecNormalize == InitNormalize /\ [][NextNormalize]_vars

(***************************************************************************)
(* SpecResize: the page as shipped, opened without parameters, with resize *)
(* events and the passing of time.                                         *)
(***************************************************************************)
ElapseSteps == {1, 100, 249}

InitResize ==
    /\ PageLoaded
    /\ url = [country |-> Undefined, year |-> Undefined]
    /\ fileYears = [c \in Countries |-> 1]
    /\ rawInput = NoInput
    /\ normalized = << >>

NextResize ==
    \/ CatalogOk(<< "Algeria" >>)
    \/ CatalogFail
    \/ FetchOk(1)
    \/ FetchFail(1, "network")
    \/ HideMessage
    \/ Resize
    \/ \E d \in ElapseSteps : Elapse(d)
    \/ \E id \in 1..(MaxBurst + 1) : ResizeTimeout(id)

SpecResize == InitResize /\ [][NextResize]_vars

(***************************************************************************)
(* C1.  processRawData returns a one-element sequence whose entry has      *)
(* ageGroups, male and female each the exact reverse of the corresponding  *)
(* fields of the input rows, all three as long as the input, and the       *)
(* input object is as it was before the call.                              *)
(***************************************************************************)
C1_ReversedUnmodified ==
    [][normalized' # normalized =>
          LET d == rawInput.data
              n == Len(d)
          IN  /\ rawInput' = rawInput
              /\ Len(normalized') = 1
              /\ LET e == normalized'[1]
                 IN  /\ Len(e.ageGroups) = n /\ Len(e.male) = n /\ Len(e.female) = n
                     /\ \A i \in 1..n :
                            /\ e.ageGroups[i] = d[n + 1 - i].ageGroup
                            /\ e.male[i] = d[n + 1 - i].male
                            /\ e.female[i] = d[n + 1 - i].female]_vars

\* processRawData has returned on rows whose order matters.
C1_Witness ==
    /\ Len(normalized) = 1
    /\ Len(rawInput.data) = MaxLen
    /\ rawInput.data[1] # rawInput.data[MaxLen]
    /\ normalized[1].male[1] = rawInput.data[MaxLen].male

(***************************************************************************)
(* What the claims read.                                                   *)
(***************************************************************************)
LogHas(what) == \E i \in 1..Len(log) : log[i] = what

LastTask == log[1]

\* The instance id is live in live and holds the arrays of entry, male negated.
Holds(live, id, entry) ==
    /\ id \in DOMAIN live
    /\ live[id].labels = entry.ageGroups
    /\ live[id].female = entry.female
    /\ Len(live[id].male) = Len(entry.male)
    /\ \A i \in 1..Len(entry.male) : live[id].male[i] + entry.male[i] = 0

ChartShows(entry) == Holds(charts, pyramidChart, entry)

(***************************************************************************)
(* C2.  At most one chart instance that has been constructed and not       *)
(* destroyed exists, and it is the one pyramidChart refers to; whenever a  *)
(* task has built a chart, also over an instance built from the same       *)
(* entry, exactly one instance is live and it holds that entry's data.     *)
(***************************************************************************)
C2_OneLiveChart ==
    /\ Cardinality(DOMAIN charts) <= 1
    /\ DOMAIN charts = IF pyramidChart = NoChart THEN {} ELSE {pyramidChart}
    /\ LogHas("new Chart") =>
           /\ Cardinality(DOMAIN charts) = 1
           /\ currentYearIndex \in 0..(Len(allYearsData) - 1)
           /\ ChartShows(allYearsData[currentYearIndex + 1])

\* A second build from the entry the destroyed instance was built from.
C2_Witness ==
    /\ LogHas("destroy") /\ LogHas("new Chart")
    /\ requests >= 2
    /\ Cardinality(DOMAIN charts) = 1
    /\ charts[pyramidChart] = lastDestroyed

(***************************************************************************)
(* C3.  Once every dataset fetch has been answered, none of them with a    *)
(* failure, allYearsData and the chart hold the normalized dataset of the  *)
(* country requested last.                                                 *)
(***************************************************************************)
C3_LatestRequestRendered ==
    (requests > 0 /\ inflight = << >> /\ ~fetchFailed) =>
        /\ Len(allYearsData) = 1
        /\ allYearsData[1].country = Requested(lastRequested)
        /\ allYearsData = processRawData(RawOf(Requested(lastRequested), DataYear)).ret
        /\ ChartShows(allYearsData[1])

(***************************************************************************)
(* C7.  After a successful catalog load the country passed to              *)
(* loadAndDisplayChart is the `country` parameter of the URL when it is    *)
(* present and in the catalog, otherwise "Algeria" when the catalog holds  *)
(* it, otherwise the first entry of the catalog (countryList[0], which is  *)
(* undefined when the catalog is empty).                                   *)
(***************************************************************************)
InCatalog(x) == \E i \in DOMAIN countryList : countryList[i] = x

C7_InitialCountry ==
    LastTask = "loadCountryList.then" =>
        /\ lastRequested =
               IF url.country # Undefined /\ InCatalog(url.country) THEN url.country
               ELSE IF InCatalog("Algeria") THEN "Algeria"
               ELSE IF Len(countryList) > 0 THEN countryList[1]
               ELSE Undefined
        /\ Len(inflight) = 1
        /\ lastRequested # Undefined => inflight[1] = lastRequested

\* The parameter names a country the catalog lacks, and so is "Algeria".
C7_Witness ==
    /\ LastTask = "loadCountryList.then"
    /\ url.country = "Atlantis"
    /\ countryList = << "Chad", "Brazil" >>
    /\ lastRequested = "Chad"

(***************************************************************************)
(* C8.  When the catalog fetch fails, loadCountryList shows its warning    *)
(* and requests the dataset of "Algeria"; when that fetch succeeds, the    *)
(* chart of "Algeria" is rendered.                                         *)
(***************************************************************************)
C8_CatalogFailure ==
    /\ LastTask = "loadCountryList.catch" =>
           /\ LogHas("showMessage")
           /\ messageBox = [text |-> "Could not load country list. Using default country.",
                            type |-> "error", hidden |-> FALSE]
           /\ lastRequested = "Algeria"
           /\ inflight = << "Algeria" >>
    /\ (catalogFetch = "failed" /\ LastTask = "loadAndDisplayChart.then") =>
           /\ LogHas("new Chart")
           /\ Len(allYearsData) = 1
           /\ allYearsData[1].country = "Algeria"
           /\ ChartShows(allYearsData[1])
           /\ dataSourceInfo = "Data for \"Algeria\""

C8_Witness ==
    /\ catalogFetch = "failed"
    /\ LastTask = "loadAndDisplayChart.then"
    /\ pyramidChart # NoChart
    /\ dataSourceInfo = "Data for \"Algeria\""

C10_FetchFailureRecoverable ==
    /\ LastTask = "loadAndDisplayChart.catch" =>
           /\ LogHas("showMessage")
           /\ messageBox.type = "error"
           /\ ~messageBox.hidden
           /\ \E kind \in {"http", "network"} :
                  messageBox.text = "Error: " \o ErrorMessage(kind, lastCompleted)
    /\ (fetchFailed /\ LastTask = "loadAndDisplayChart.then") =>
           /\ allYearsData = processRawData(RawOf(lastCompleted, DataYear)).ret
           /\ LogHas("new Chart")
           /\ ChartShows(allYearsData[1])
           /\ dataSourceInfo = SourceText(lastCompleted)

\* The first dataset fetch failed; the user selected a country and its chart is there.
C10_Witness ==
    /\ fetchFailed
    /\ LastTask = "loadAndDisplayChart.then"
    /\ requests = 2 /\ inflight = << >>
    /\ countrySelector.value = lastCompleted
    /\ url.country = lastCompleted
    /\ pyramidChart # NoChart
    /\ controlsHidden

Count(l, what) == Cardinality({i \in 1..Len(l) : l[i] = what})

C14_DebouncedResize ==
    /\ [](burst.events > 0 =>
             /\ burst.fired <= 1
             /\ sinceResize < DebounceDelay => (burst.fired = 0 /\ burst.calls = 0)
             /\ (sinceResize = DebounceDelay /\ Due = {}) => burst.fired = 1
             /\ Cardinality(DOMAIN timeouts) <= 1)
    /\ [][burst'.fired > burst.fired =>
              /\ burst.events > 0
              /\ sinceResize = DebounceDelay
              /\ burst'.fired = 1
              /\ burst'.calls = IF pyramidChart # NoChart THEN 1 ELSE 0
              /\ charts' = charts /\ pyramidChart' = pyramidChart]_vars

\* A burst of MaxBurst events has ended in one resize call.
C14_Witness ==
    /\ burst = [events |-> MaxBurst, fired |-> 1, calls |-> 1]
    /\ sinceResize = DebounceDelay
    /\ timeouts = EmptyMap
    /\ pyramidChart # NoChart

C18_LoadingWhilePending ==
    loadingHidden <=> inflight = << >>

====
